---- MODULE Spec2Model ----
(***************************************************************************)
(* Verification model of the transformer thermal model's cooling-switch    *)
(* logic (transformer/cooling_switch_controller.py, transformer/base.py)   *)
(* and of the hot-spot factor calibration search                           *)
(* (hot_spot_calibration/calibrate_hotspot_factor.py).                     *)
(*                                                                         *)
(* Units: temperatures are whole degrees; hot-spot factors are counted in  *)
(* units of 0.005, so that the search step 0.01 is 2 units and a lower     *)
(* bound may lie between two candidates.                                   *)
(***************************************************************************)
EXTENDS Integers, Sequences, FiniteSets, TLC

\* ------------------------------------------------------------------ bounds
MaxTemp == 4
MaxLen == 3
MaxFacSpan == 4
MaxSteps == 3
MaxRated == 2
MaxLoad == 2

Temps == 0..MaxTemp
None == [is_none |-> TRUE]

\* --------------------------------------------------------- parameter sets
\* The ONAF specifications a PowerTransformer is constructed with (values of
\* the switch tests; tenths of a kelvin for the rise, hundredths for the
\* hot-spot factor).
user_specs ==
    [no_load_loss |-> 200, amb_temp_surcharge |-> 20, load_loss |-> 1000,
     nom_load_sec_side |-> 1500, top_oil_temp_rise |-> 600,
     winding_oil_gradient |-> 25, hot_spot_fac |-> 110,
     time_const_oil |-> 150, time_const_windings |-> 7,
     oil_const_k11 |-> 5, oil_exp_x |-> 8, winding_exp_y |-> 13]

\* ONANParameters of the switch configuration.
onan_parameters ==
    [top_oil_temp_rise |-> 505, time_const_oil |-> 150,
     time_const_windings |-> 7, load_loss |-> 1000,
     nom_load_sec_side |-> 1600, winding_oil_gradient |-> 23,
     hot_spot_fac |-> 120]

\* A merge that leaves the winding-oil gradient of the ONAF set in place.
create_onan_specifications_keeps_gradient(orig) ==
    [f \in DOMAIN orig |->
        IF f \in DOMAIN onan_parameters \ {"winding_oil_gradient"}
        THEN onan_parameters[f] ELSE orig[f]]

\* CoolingSwitchController.create_onan_specifications: a copy of the ONAF
\* specifications in which every field of the ONAN parameters is replaced.
create_onan_specifications(orig) ==
    [f \in DOMAIN orig |->
        IF f \in DOMAIN onan_parameters THEN onan_parameters[f] ELSE orig[f]]

\* ------------------------------------------------------------- variables
VARIABLES
    mode,                  \* "fans" | "threshold" | "none": the switch settings
    fans_status,           \* the fan schedule (<<>> when not given)
    activation_temp,       \* temperature_threshold.activation_temp
    deactivation_temp,     \* temperature_threshold.deactivation_temp
    original_onaf_specs,   \* CoolingSwitchController.original_onaf_specs
    ctl_specs,             \* the specifications the controller made active
    tr_specs,              \* Transformer.specs as driven by base.py
    sw_pc,                 \* "constructed" | "running"
    index,                 \* index of the next switch check
    top_oil_temp,          \* top-oil temperature of the latest check
    previous_top_oil_temp, \* top-oil temperature before it
    new_specs,             \* what the latest controller check returned
    initial_top_oil_temperature  \* the temperature the run started from

swvars == <<mode, fans_status, activation_temp, deactivation_temp,
            original_onaf_specs, ctl_specs, tr_specs, sw_pc, index,
            top_oil_temp, previous_top_oil_temp, new_specs,
            initial_top_oil_temperature>>

\* calibrate_hotspot_factor
VARIABLES
    kind,                      \* "power" | "threewinding" | "other": type of the transformer
    hot_spot_factor_min,       \* argument
    hot_spot_factor_max,       \* argument
    heap,                      \* transformer objects: id -> specs (None when not allocated)
    calibrated_transformer,    \* id of the working copy (0 before it exists)
    difference,                \* local: latest peak minus the limit
    new_hot_spot_factor,       \* local
    old_hot_spot_factor,       \* local
    simulated,                 \* the one-week simulations run so far, in order
    cal_pc,                    \* "idle" | "loop" | "returned" | "raised"
    cal_error                  \* "" | "bounds" | "type"

calvars == <<kind, hot_spot_factor_min, hot_spot_factor_max, heap,
             calibrated_transformer, difference, new_hot_spot_factor,
             old_hot_spot_factor, simulated, cal_pc, cal_error>>

\* Construction of transformers (threewinding.py, schemas/specifications).
VARIABLES
    objects,       \* the specification objects: id -> dumped fields
    transformers,  \* the transformers constructed so far: cooling type, id of
                   \* specs, the user_specs argument they were constructed from
    last_op,       \* the latest operation: <<"construct" | "rejected" | "mutate", transformer>>
    build_error    \* "" | "ValidationError": outcome of the latest construction

crvars == <<objects, transformers, last_op, build_error>>

\* The simulation run (thermal engine).
VARIABLES
    run_specs,                    \* the transformer of the run: no_load_loss, amb_temp_surcharge
    elapsed,                      \* per index: the kind of the step that led to it
    load_profile,                 \* per index: the load (0 or the rated load)
    ambient_temperature_profile,  \* per index: the ambient temperature
    top_oil_temp_profile,         \* the recorded top-oil temperatures
    hot_spot_rise,                \* the hot-spot rise above top-oil at the latest index
    hot_spot_temp_profile         \* the recorded hot-spot temperatures

engvars == <<run_specs, elapsed, load_profile, ambient_temperature_profile,
             top_oil_temp_profile, hot_spot_rise, hot_spot_temp_profile>>

\* Construction of the switch settings, the transformer and the simulation.
VARIABLES
    switch_args,    \* the arguments the switch settings were constructed from
    cooling_type,   \* cooling type given to the transformer ("" before)
    profile_len,    \* number of points of the temperature profile given to Model
    bld_pc,         \* how far the construction has come
    build_message   \* message of the ValueError of a rejected construction

bldvars == <<switch_args, cooling_type, profile_len, bld_pc, build_message>>

\* The loss decomposition and the end top-oil temperature of a
\* three-winding transformer (threewinding.py).
VARIABLES
    tw_specs,        \* ThreeWindingTransformer.specs
    loss_hc,         \* _get_loss_hc() (Unbound before it is computed)
    loss_mc,         \* _get_loss_mc()
    loss_lc,         \* _get_loss_lc()
    load_triple,     \* load_profile of one instant: <<HV, MV, LV>>
    end_temp,        \* _end_temperature_top_oil(load_profile)
    power_end_temp,  \* the same of the single-winding transformer with the LV load
    loss_pc          \* "constructed" | "decomposed" | "evaluated"

lossvars == <<tw_specs, loss_hc, loss_mc, loss_lc, load_triple, end_temp,
              power_end_temp, loss_pc>>

\* Identity of the parameter set the controller handed out.
VARIABLES
    active_is_original  \* the active set is the object original_onaf_specs itself

vars == <<swvars, calvars, crvars, engvars, bldvars, lossvars, active_is_original>>
notsw == <<calvars, crvars, engvars, bldvars, lossvars, active_is_original>>
notcal == <<swvars, crvars, engvars, bldvars, lossvars, active_is_original>>
notcr == <<swvars, calvars, engvars, bldvars, lossvars, active_is_original>>
noteng == <<swvars, calvars, crvars, bldvars, lossvars, active_is_original>>
notbld == <<calvars, crvars, engvars, lossvars, active_is_original>>
notloss == <<swvars, calvars, crvars, engvars, bldvars, active_is_original>>
notalias == <<calvars, crvars, engvars, bldvars, lossvars>>

ONAF == user_specs
ONAN == create_onan_specifications(user_specs)

\* ------------------------------------------------- switch configurations
BoolSeqs(n) == UNION {[1..k -> BOOLEAN] : k \in 1..n}

\* ONAFSwitchBase.check_consistency and FanSwitchConfig.check_temperatures:
\* exactly one of the schedule and the threshold pair, activation above
\* deactivation.  A transformer may also carry no switch at all.
SwitchConfigs ==
    {[mode |-> "fans", fans |-> fs, act |-> 0, deact |-> 0] : fs \in BoolSeqs(MaxLen)}
    \cup {[mode |-> "threshold", fans |-> <<>>, act |-> p[1], deact |-> p[2]] :
            p \in {q \in Temps \X Temps : q[1] > q[2]}}
    \cup {[mode |-> "none", fans |-> <<>>, act |-> 0, deact |-> 0]}

\* Number of points of the temperature profile of the run.
ProfileLen == profile_len

\* ------------------------------------------------------- controller code
\* Variant: the starting state ignores the initial top-oil temperature.
determine_initial_specifications_always_onan(init_temp) ==
    IF mode = "fans"
    THEN IF ~fans_status[1]
         THEN create_onan_specifications(original_onaf_specs)
         ELSE original_onaf_specs
    ELSE IF mode = "threshold"
         THEN create_onan_specifications(original_onaf_specs)
         ELSE original_onaf_specs

\* CoolingSwitchController.determine_initial_specifications
determine_initial_specifications(init_temp) ==
    IF mode = "fans"
    THEN IF ~fans_status[1]
         THEN create_onan_specifications(original_onaf_specs)
         ELSE original_onaf_specs
    ELSE IF mode = "threshold" /\ init_temp < activation_temp
         THEN create_onan_specifications(original_onaf_specs)
         ELSE original_onaf_specs

\* Variant: the two branches of the schedule switch are exchanged.
handle_fan_status_switch_inverted(fs, i) ==
    LET previous_fan_status == fs[i + 1]
        current_fan_status == fs[i + 2]
    IN IF previous_fan_status # current_fan_status
       THEN IF current_fan_status
            THEN create_onan_specifications(original_onaf_specs)
            ELSE original_onaf_specs
       ELSE None

\* CoolingSwitchController._handle_fan_status_switch (index is 0-based)
handle_fan_status_switch(fs, i) ==
    LET previous_fan_status == fs[i + 1]
        current_fan_status == fs[i + 2]
    IN IF previous_fan_status # current_fan_status
       THEN IF current_fan_status
            THEN original_onaf_specs
            ELSE create_onan_specifications(original_onaf_specs)
       ELSE None

\* Variant: the activation threshold must be exceeded, not merely reached.
handle_temp_threshold_switch_strict(act, deact, top, prev) ==
    IF prev < act /\ act < top
    THEN original_onaf_specs
    ELSE IF prev > deact /\ deact >= top
         THEN create_onan_specifications(original_onaf_specs)
         ELSE None

\* CoolingSwitchController._handle_temp_threshold_switch
handle_temp_threshold_switch(act, deact, top, prev) ==
    IF prev < act /\ act <= top
    THEN original_onaf_specs
    ELSE IF prev > deact /\ deact >= top
         THEN create_onan_specifications(original_onaf_specs)
         ELSE None

\* CoolingSwitchController.check_switch_and_get_new_specs
check_switch_and_get_new_specs(top, prev, i) ==
    IF mode = "fans" /\ i < Len(fans_status) - 1
    THEN handle_fan_status_switch(fans_status, i)
    ELSE IF mode = "threshold"
         THEN handle_temp_threshold_switch(activation_temp, deactivation_temp, top, prev)
         ELSE None

\* ------------------------------------------------------ transformer code
\* Transformer._switch_cooling (abstract in base.py): substitute the
\* parameter set of the requested cooling state.
switch_cooling(to_onaf) == IF to_onaf THEN ONAF ELSE ONAN

\* Transformer.set_ONAN_ONAF_first_timestamp: the specifications after it.
set_ONAN_ONAF_first_timestamp(specs) ==
    IF mode # "none"
    THEN IF mode = "fans"
         THEN IF ~fans_status[1] THEN switch_cooling(FALSE) ELSE specs
         ELSE IF mode = "threshold" THEN switch_cooling(FALSE) ELSE specs
    ELSE specs

\* Transformer.check_onaf_switch: the specifications after the check.
check_onaf_switch(specs, top, prev, i) ==
    IF mode = "none"
    THEN specs
    ELSE IF mode = "fans" /\ i < Len(fans_status) - 1
         THEN LET p == fans_status[i + 1]
                  c == fans_status[i + 2]
              IN IF p # c THEN switch_cooling(c) ELSE specs
         ELSE IF mode = "threshold"
              THEN IF prev < activation_temp /\ activation_temp <= top
                   THEN switch_cooling(TRUE)
                   ELSE IF prev > deactivation_temp /\ deactivation_temp >= top
                        THEN switch_cooling(FALSE)
                        ELSE specs
              ELSE specs

\* ---------------------------------------------------------- the switch run
SwInit ==
    /\ \E cfg \in SwitchConfigs :
          /\ mode = cfg.mode
          /\ fans_status = cfg.fans
          /\ activation_temp = cfg.act
          /\ deactivation_temp = cfg.deact
    /\ original_onaf_specs = user_specs
    /\ ctl_specs = user_specs
    /\ tr_specs = user_specs
    /\ sw_pc = "constructed"
    /\ index = 0
    /\ top_oil_temp = 0
    /\ previous_top_oil_temp = 0
    /\ initial_top_oil_temperature = 0
    /\ new_specs = None

\* Start of a run: the starting parameter set is chosen from the initial
\* top-oil temperature.
StartRun ==
    /\ sw_pc = "constructed"
    /\ \E t0 \in Temps :
          /\ initial_top_oil_temperature' = t0
          /\ top_oil_temp' = t0
          /\ previous_top_oil_temp' = t0
          /\ ctl_specs' = IF mode = "none" THEN ctl_specs
                          ELSE determine_initial_specifications(t0)
          /\ tr_specs' = set_ONAN_ONAF_first_timestamp(tr_specs)
    /\ sw_pc' = "running"
    /\ index' = 0
    /\ new_specs' = None
    /\ UNCHANGED <<mode, fans_status, activation_temp, deactivation_temp,
                   original_onaf_specs>>

\* One step of the run: the switch check at the current index with the
\* previous and the new top-oil temperature.
CheckSwitch ==
    /\ sw_pc = "running"
    /\ index < ProfileLen
    /\ \E t \in Temps :
          LET r == check_switch_and_get_new_specs(t, top_oil_temp, index)
          IN /\ new_specs' = r
             /\ ctl_specs' = IF r = None THEN ctl_specs ELSE r
             /\ tr_specs' = check_onaf_switch(tr_specs, t, top_oil_temp, index)
             /\ top_oil_temp' = t
    /\ previous_top_oil_temp' = top_oil_temp
    /\ index' = index + 1
    /\ UNCHANGED <<mode, fans_status, activation_temp, deactivation_temp,
                   original_onaf_specs, sw_pc, initial_top_oil_temperature>>

\* ------------------------------------------- hot-spot factor calibration
\* The search step 0.01 and the lowest factor of the calibration tests (1.1),
\* in units of 0.005; the hot-spot limit of the tests.
Step == 2
FacLow == 220
hot_spot_limit == 98

Factors == FacLow..(FacLow + MaxFacSpan)
PeakVals == {hot_spot_limit - 1, hot_spot_limit, hot_spot_limit + 1}
Unbound == [unbound |-> TRUE]
uncalibrated_transformer == 1

\* The specifications of the transformer handed to the calibration.
UncalibratedSpecs(surcharge) ==
    [hot_spot_fac |-> 260, amb_temp_surcharge |-> surcharge,
     nom_load_sec_side |-> 1575, winding_oil_gradient |-> 226]

\* Sides whose peak hot-spot temperature one simulation yields.
Sides == IF kind = "threewinding" THEN 1..3 ELSE 1..1

\* Variant: only the first (low-voltage) side is looked at.
SeqMax_first_only(q) == q[1]

RECURSIVE SeqMax(_)
SeqMax(q) ==
    IF Len(q) = 1 THEN q[1]
    ELSE LET m == SeqMax(Tail(q)) IN IF q[1] > m THEN q[1] ELSE m

\* np.clip
clip(x, lo, hi) == IF x < lo THEN lo ELSE IF x > hi THEN hi ELSE x

\* Assignment to a field of the specs of transformer object `ref`.
SetSpec(h, ref, field, value) ==
    [h EXCEPT ![ref] = [@ EXCEPT ![field] = value]]

\* Transformer._set_HS_fac: overwrite the hot-spot factor in place.
set_HS_fac(h, ref, value) == SetSpec(h, ref, "hot_spot_fac", value)

\* Variant: no copy is made, the working transformer is the caller's object.
deepcopy_alias(h, ref) == [heap |-> h, ref |-> ref]

\* copy.deepcopy: a new object with equal contents.
deepcopy(h, ref) == [heap |-> [h EXCEPT ![ref + 1] = h[ref]], ref |-> ref + 1]

\* The bounds check at the head of calibrate_hotspot_factor.
bounds_rejected(min, max) == min > max

\* Variant: the transformer is copied before the bounds are checked.
calibrate_entry_copy_first(h, ref, min, max) ==
    LET cp == deepcopy(h, ref)
    IN IF bounds_rejected(min, max)
       THEN [error |-> "bounds", heap |-> cp.heap, calibrated |-> cp.ref]
       ELSE [error |-> "",
             heap |-> SetSpec(cp.heap, cp.ref, "amb_temp_surcharge", 0),
             calibrated |-> cp.ref]

\* calibrate_hotspot_factor up to the branch on the transformer type: the
\* bounds check, then the deep copy with its surcharge set to zero.
calibrate_entry(h, ref, min, max) ==
    IF bounds_rejected(min, max)
    THEN [error |-> "bounds", heap |-> h, calibrated |-> 0]
    ELSE LET cp == deepcopy(h, ref)
         IN [error |-> "",
             heap |-> SetSpec(cp.heap, cp.ref, "amb_temp_surcharge", 0),
             calibrated |-> cp.ref]

\* Variant: the search descends one step further below the minimum.
search_continues_two_steps_below(diff, new, min) == diff > 0 /\ new >= min - 2 * Step

\* Variant: the search goes on while the peak reaches the limit.
search_continues_on_equal(diff, new, min) == diff >= 0 /\ new >= min - Step

\* The condition of the while loop.
search_continues(diff, new, min) == diff > 0 /\ new >= min - Step

\* Variant: the result is not clipped.
calibrated_hot_spot_factor_unclipped(old, min, max) == old

\* Variant: the result is the candidate one step above the last tested one.
calibrated_hot_spot_factor_step_above(old, min, max) == clip(old + Step, min, max)

\* The factor computed after the loop.
calibrated_hot_spot_factor(old, min, max) == clip(old, min, max)

\* The last assignment of calibrate_hotspot_factor: the surcharge of the
\* caller's transformer is put back on the working copy.
restore_surcharge(h, ref) ==
    SetSpec(h, ref, "amb_temp_surcharge", h[uncalibrated_transformer].amb_temp_surcharge)

CalInit ==
    /\ kind \in {"power", "threewinding", "other"}
    /\ hot_spot_factor_min \in Factors
    /\ hot_spot_factor_max \in Factors
    /\ \E surcharge \in {0, 20} :
          heap = [i \in 1..2 |-> IF i = 1 THEN UncalibratedSpecs(surcharge) ELSE None]
    /\ calibrated_transformer = 0
    /\ difference = 0
    /\ new_hot_spot_factor = Unbound
    /\ old_hot_spot_factor = Unbound
    /\ simulated = <<>>
    /\ cal_pc = "idle"
    /\ cal_error = ""

\* Entry of calibrate_hotspot_factor up to the head of the while loop.
CalCall ==
    /\ cal_pc = "idle"
    /\ LET e == calibrate_entry(heap, uncalibrated_transformer,
                                hot_spot_factor_min, hot_spot_factor_max)
       IN /\ calibrated_transformer' = e.calibrated
          /\ IF e.error # ""
             THEN /\ cal_pc' = "raised"
                  /\ cal_error' = e.error
                  /\ heap' = e.heap
                  /\ UNCHANGED <<difference, new_hot_spot_factor, old_hot_spot_factor>>
             ELSE IF kind \in {"power", "threewinding"}
                  THEN /\ difference' = 100
                       /\ new_hot_spot_factor' = hot_spot_factor_max
                       /\ old_hot_spot_factor' =
                             IF kind = "threewinding" THEN hot_spot_factor_max ELSE Unbound
                       /\ heap' = set_HS_fac(e.heap, e.calibrated, hot_spot_factor_max)
                       /\ cal_pc' = "loop"
                       /\ cal_error' = ""
                  ELSE /\ cal_pc' = "raised"
                       /\ cal_error' = "type"
                       /\ heap' = e.heap
                       /\ UNCHANGED <<difference, new_hot_spot_factor, old_hot_spot_factor>>
    /\ UNCHANGED <<kind, hot_spot_factor_min, hot_spot_factor_max, simulated>>

\* One iteration of the while loop: a one-week simulation of the working
\* copy, whose peaks are whatever the thermal model yields.
CalIterate ==
    /\ cal_pc = "loop"
    /\ search_continues(difference, new_hot_spot_factor, hot_spot_factor_min)
    /\ old_hot_spot_factor' = new_hot_spot_factor
    /\ \E peaks \in [Sides -> PeakVals] :
          /\ simulated' = Append(simulated,
                [fac |-> heap[calibrated_transformer].hot_spot_fac,
                 surcharge |-> heap[calibrated_transformer].amb_temp_surcharge,
                 peaks |-> peaks])
          /\ difference' = SeqMax(peaks) - hot_spot_limit
    /\ new_hot_spot_factor' = new_hot_spot_factor - Step
    /\ heap' = set_HS_fac(heap, calibrated_transformer, new_hot_spot_factor - Step)
    /\ UNCHANGED <<kind, hot_spot_factor_min, hot_spot_factor_max,
                   calibrated_transformer, cal_pc, cal_error>>

\* The loop is left: the result is clipped, stored on the working copy, the
\* surcharge is restored and the copy is returned.
CalReturn ==
    /\ cal_pc = "loop"
    /\ ~search_continues(difference, new_hot_spot_factor, hot_spot_factor_min)
    /\ heap' = restore_surcharge(
                  set_HS_fac(heap, calibrated_transformer,
                             calibrated_hot_spot_factor(old_hot_spot_factor,
                                 hot_spot_factor_min, hot_spot_factor_max)),
                  calibrated_transformer)
    /\ cal_pc' = "returned"
    /\ UNCHANGED <<kind, hot_spot_factor_min, hot_spot_factor_max,
                   calibrated_transformer, difference, new_hot_spot_factor,
                   old_hot_spot_factor, simulated, cal_error>>

\* ------------------------------------------- construction of transformers
\* Numbers are in the units of the source except the dimensionless constants
\* hot_spot_fac, oil_const_k11, oil_exp_x and winding_exp_y, which are in
\* tenths (13 is 1.3).
MaxTransformers == 2

\* ThreeWindingTransformer._onan_defaults and ._onaf_defaults: the class-level
\* objects, allocated once when the class is defined.
onan_defaults_value ==
    [time_const_oil |-> 210, time_const_windings |-> 10, top_oil_temp_rise |-> 60,
     winding_oil_gradient |-> 17, hot_spot_fac |-> 13, oil_const_k11 |-> 5,
     winding_const_k21 |-> 2, winding_const_k22 |-> 2, oil_exp_x |-> 8,
     winding_exp_y |-> 13, end_temp_reduction |-> 0]
onaf_defaults_value ==
    [time_const_oil |-> 150, time_const_windings |-> 7, top_oil_temp_rise |-> 60,
     winding_oil_gradient |-> 17, hot_spot_fac |-> 13, oil_const_k11 |-> 5,
     winding_const_k21 |-> 2, winding_const_k22 |-> 2, oil_exp_x |-> 8,
     winding_exp_y |-> 13, end_temp_reduction |-> 0]
_onan_defaults == 1
_onaf_defaults == 2

\* The defaults property: the class-level object of the cooling type.
defaults(ct) ==
    IF ct = "ONAN" THEN _onan_defaults ELSE _onaf_defaults

\* WindingSpecifications(nom_load, winding_oil_gradient) as given by a user.
Winding(nom_load, gradient) == [nom_load |-> nom_load, winding_oil_gradient |-> gradient]

\* User specifications of a three-winding transformer, as
\* model_dump(exclude_none=True) shows them: an optional field that was not
\* given is not a key of the record.
UserBase ==
    [no_load_loss |-> 20, amb_temp_surcharge |-> 10,
     lv_winding |-> Winding(1000, 20), mv_winding |-> Winding(1000, 20),
     hv_winding |-> Winding(2000, 20),
     load_loss_hv_lv |-> 100, load_loss_hv_mv |-> 100, load_loss_mv_lv |-> 100]

\* dict.update: the keys of u override those of d.
dict_update(d, u) ==
    [k \in DOMAIN d \cup DOMAIN u |-> IF k \in DOMAIN u THEN u[k] ELSE d[k]]

UserInputs ==
    { UserBase,
      dict_update(UserBase, [time_const_oil |-> 180, hot_spot_fac |-> 12]),
      dict_update(UserBase, [load_loss_total |-> 250]),
      dict_update(UserBase, [time_const_oil |-> 0]),
      dict_update(UserBase, [oil_exp_x |-> -1]),
      dict_update(UserBase, [lv_winding |-> Winding(1000, -1)]),
      dict_update(UserBase, [hv_winding |-> Winding(0, 20)]) }

\* The Field constraints of BaseUserTransformerSpecifications: gt=0 and ge=0
\* on the optional fields that are given; none on the required ones.
GtZeroFields == {"time_const_oil", "time_const_windings", "oil_const_k11",
                 "winding_const_k21", "winding_const_k22"}
GeZeroFields == {"top_oil_temp_rise", "winding_oil_gradient", "hot_spot_fac",
                 "oil_exp_x", "winding_exp_y"}

base_user_fields_valid(u) ==
    /\ \A k \in GtZeroFields \cap DOMAIN u : u[k] > 0
    /\ \A k \in GeZeroFields \cap DOMAIN u : u[k] >= 0

\* WindingSpecifications: winding_oil_gradient has ge=0, nom_load no constraint.
winding_valid(w) == w.winding_oil_gradient >= 0

\* UserThreeWindingTransformerSpecifications(...) validates.
user_three_winding_valid(u) ==
    /\ base_user_fields_valid(u)
    /\ winding_valid(u.lv_winding)
    /\ winding_valid(u.mv_winding)
    /\ winding_valid(u.hv_winding)

\* Variant: a default is kept where the user gave a value as well.
three_winding_data_defaults_win(default_fields, user) ==
    LET data == dict_update(user, default_fields)
    IN  IF "load_loss_total" \notin DOMAIN user
        THEN dict_update(data, [load_loss_total |->
                 user.load_loss_hv_lv + user.load_loss_hv_mv + user.load_loss_mv_lv])
        ELSE data

\* Variant: the total load loss is always the sum of the pairwise losses.
three_winding_data_always_sums(default_fields, user) ==
    dict_update(dict_update(default_fields, user),
                [load_loss_total |->
                    user.load_loss_hv_lv + user.load_loss_hv_mv + user.load_loss_mv_lv])

\* ThreeWindingTransformerSpecifications.create: the dump of the defaults
\* updated with the user's fields, the total load loss summed when it was not
\* given, made into a new object.
three_winding_data(default_fields, user) ==
    LET data == dict_update(default_fields, user)
    IN  IF "load_loss_total" \notin DOMAIN user
        THEN dict_update(data, [load_loss_total |->
                 user.load_loss_hv_lv + user.load_loss_hv_mv + user.load_loss_mv_lv])
        ELSE data

\* Variant: the user's fields are written into the defaults object itself,
\* which becomes the transformer's specifications.
three_winding_create_in_defaults(h, d, user) ==
    [heap |-> [h EXCEPT ![d] = three_winding_data(h[d], user)], ref |-> d]

three_winding_create(h, d, user) ==
    [heap |-> Append(h, three_winding_data(h[d], user)), ref |-> Len(h) + 1]

CrInit ==
    /\ objects = <<onan_defaults_value, onaf_defaults_value>>
    /\ transformers = <<>>
    /\ last_op = <<"none", 0>>
    /\ build_error = ""

\* UserThreeWindingTransformerSpecifications(...) followed by
\* ThreeWindingTransformer(user_specs, cooling_type).
Construct ==
    /\ Len(transformers) < MaxTransformers
    /\ \E ct \in {"ONAN", "ONAF"}, user \in UserInputs :
          IF user_three_winding_valid(user)
          THEN LET made == three_winding_create(objects, defaults(ct), user)
               IN  /\ objects' = made.heap
                   /\ transformers' = Append(transformers,
                          [cooling_type |-> ct, specs |-> made.ref, user_specs |-> user])
                   /\ last_op' = <<"construct", Len(transformers) + 1>>
                   /\ build_error' = ""
          ELSE /\ build_error' = "ValidationError"
               /\ last_op' = <<"rejected", 0>>
               /\ UNCHANGED <<objects, transformers>>

\* transformer.specs.<field> = value, in place on one transformer.
MutatedFields == {"time_const_oil", "hot_spot_fac"}
MutatedValues == {99}

Mutate ==
    \E t \in 1..Len(transformers), field \in MutatedFields, value \in MutatedValues :
        /\ objects' = [objects EXCEPT ![transformers[t].specs][field] = value]
        /\ last_op' = <<"mutate", t>>
        /\ build_error' = ""
        /\ UNCHANGED transformers

\* No transformer is being constructed.
CrIdle == CrInit

\* ------------------------------------------------------ thermal engine
\* Temperatures are in units of 1/Scale K, so that every lag of the run is
\* exact: a step halves the distance to its target at most MaxSteps times.
RECURSIVE Pow2(_)
Pow2(n) == IF n = 0 THEN 1 ELSE 2 * Pow2(n - 1)
Scale == Pow2(MaxSteps)

AmbientTemps == {0, Scale}
Loads == {0, 1}                 \* load / rated load
top_oil_temp_rise == 2 * Scale
hot_spot_target_rated == Scale  \* hot_spot_fac x winding_oil_gradient at rated load

\* The transformers of the runs: the load loss is 1, the oil exponent is 1.
RunSpecs == [no_load_loss : {0, 1}, amb_temp_surcharge : {0, Scale}]

\* exp(-dt / tau) of the top-oil lag and of the winding lag, in halves, for
\* the kinds of step: dt = 0; a short step; a step after which the winding
\* lag has vanished; a step so long that both exponentials are zero.
StepKinds == {"zero", "short", "medium", "long"}
oil_decay(step) == CASE step = "zero" -> 2 [] step = "short" -> 1
                     [] step = "medium" -> 1 [] step = "long" -> 0
winding_decay(step) == CASE step = "zero" -> 2 [] step = "short" -> 1
                         [] step = "medium" -> 0 [] step = "long" -> 0

\* Variant: the rise of the rated load whatever the load is.
end_temperature_top_oil_rated(specs, load) == top_oil_temp_rise

\* end_temperature_top_oil(load): top_oil_temp_rise x (no_load_loss +
\* load_loss x (load / rated)^2) / (no_load_loss + load_loss), oil exponent 1.
end_temperature_top_oil(specs, load) ==
    (top_oil_temp_rise * (specs.no_load_loss + load * load)) \div (specs.no_load_loss + 1)

\* ambient(t) + amb_temp_surcharge
internal_ambient(specs, ambient) == ambient + specs.amb_temp_surcharge

\* The first-order lag: target + (previous - target) x exp(-dt / tau).
\* Variant: a zero-length step jumps to the target as every other step does.
lag_no_identity(target, previous, decay) ==
    IF decay = 2 THEN target ELSE target + ((previous - target) * decay) \div 2

lag(target, previous, decay) == target + ((previous - target) * decay) \div 2

\* Cold start: the run begins at the internal ambient temperature.
cold_start(specs, ambient) == internal_ambient(specs, ambient)

top_oil_step(specs, previous, ambient, load, step) ==
    lag(internal_ambient(specs, ambient) + end_temperature_top_oil(specs, load),
        previous, oil_decay(step))

hot_spot_rise_step(previous, load, step) ==
    lag(hot_spot_target_rated * load, previous, winding_decay(step))

EngInit ==
    /\ run_specs \in RunSpecs
    /\ elapsed = <<>>
    /\ load_profile = <<>>
    /\ ambient_temperature_profile = <<>>
    /\ top_oil_temp_profile = <<>>
    /\ hot_spot_rise = 0
    /\ hot_spot_temp_profile = <<>>

\* Index 0 of Model.run: the initial condition is recorded.
RunStart ==
    /\ elapsed = <<>>
    /\ \E ambient \in AmbientTemps, load \in Loads :
          /\ elapsed' = <<"start">>
          /\ load_profile' = <<load>>
          /\ ambient_temperature_profile' = <<ambient>>
          /\ top_oil_temp_profile' = <<cold_start(run_specs, ambient)>>
          /\ hot_spot_rise' = 0
          /\ hot_spot_temp_profile' = <<cold_start(run_specs, ambient)>>
    /\ UNCHANGED run_specs

\* One step of the recursion of Model.run, from index t - 1 to t.
RunStep ==
    /\ elapsed # <<>>
    /\ Len(elapsed) <= MaxSteps
    /\ \E step \in StepKinds, ambient \in AmbientTemps, load \in Loads :
          LET top == top_oil_step(run_specs, top_oil_temp_profile[Len(top_oil_temp_profile)],
                                  ambient, load, step)
              rise == hot_spot_rise_step(hot_spot_rise, load, step)
          IN  /\ elapsed' = Append(elapsed, step)
              /\ load_profile' = Append(load_profile, load)
              /\ ambient_temperature_profile' = Append(ambient_temperature_profile, ambient)
              /\ top_oil_temp_profile' = Append(top_oil_temp_profile, top)
              /\ hot_spot_rise' = rise
              /\ hot_spot_temp_profile' = Append(hot_spot_temp_profile, top + rise)
    /\ UNCHANGED run_specs

\* No simulation is run.
EngIdle ==
    /\ run_specs = [no_load_loss |-> 0, amb_temp_surcharge |-> 0]
    /\ elapsed = <<>>
    /\ load_profile = <<>>
    /\ ambient_temperature_profile = <<>>
    /\ top_oil_temp_profile = <<>>
    /\ hot_spot_rise = 0
    /\ hot_spot_temp_profile = <<>>

\* ------------------------------- construction of switch and simulation
\* The arguments of ONAFSwitch(fans_status=..., temperature_threshold=...):
\* each may be left out (None); a threshold pair is any two temperatures.
NoArgs ==
    [has_fans |-> FALSE, fans |-> <<>>, has_threshold |-> FALSE, act |-> 0, deact |-> 0]

SwitchArgs ==
    [has_fans : BOOLEAN, fans : {<<>>} \cup BoolSeqs(MaxLen),
     has_threshold : BOOLEAN, act : Temps, deact : Temps]
    \ {a \in [has_fans : BOOLEAN, fans : {<<>>} \cup BoolSeqs(MaxLen),
              has_threshold : BOOLEAN, act : Temps, deact : Temps] :
          \/ ~a.has_fans /\ a.fans # <<>>
          \/ ~a.has_threshold /\ (a.act # 0 \/ a.deact # 0)}

\* Variant: equal temperatures pass.
check_temperatures_allows_equal(act, deact) ==
    IF act < deact
    THEN "Activation temperature must be higher than deactivation temperature."
    ELSE ""

\* FanSwitchConfig.check_temperatures: the message of the error, "" if none.
check_temperatures(act, deact) ==
    IF act <= deact
    THEN "Activation temperature must be higher than deactivation temperature."
    ELSE ""

\* Variant: settings with neither argument pass.
check_consistency_allows_neither(has_fans, has_threshold) ==
    IF has_fans /\ has_threshold
    THEN "Provide either 'fans_status' or 'temperature_threshold', not both."
    ELSE ""

\* ONAFSwitchBase.check_consistency: the message of the error, "" if none.
check_consistency(has_fans, has_threshold) ==
    IF has_fans /\ has_threshold
    THEN "Provide either 'fans_status' or 'temperature_threshold', not both."
    ELSE IF ~has_fans /\ ~has_threshold
         THEN "Either 'fans_status' or 'temperature_threshold' must be provided."
         ELSE ""

\* Variant: the settings take a schedule of MaxLen entries only.
switch_error_checks_length(a) ==
    IF a.has_threshold /\ check_temperatures(a.act, a.deact) # ""
    THEN check_temperatures(a.act, a.deact)
    ELSE IF check_consistency(a.has_fans, a.has_threshold) # ""
         THEN check_consistency(a.has_fans, a.has_threshold)
         ELSE IF a.has_fans /\ Len(a.fans) # MaxLen
              THEN "length"
              ELSE ""

\* The construction of the settings: the threshold pair is constructed (and
\* checked) first, the settings holding it after.
switch_error(a) ==
    IF a.has_threshold /\ check_temperatures(a.act, a.deact) # ""
    THEN check_temperatures(a.act, a.deact)
    ELSE check_consistency(a.has_fans, a.has_threshold)

\* Variant: a switch is taken with every cooling type.
transformer_init_error_unchecked(ct, has_switch) == ""

\* Transformer.__init__: the message of the error, "" if none.
transformer_init_error(ct, has_switch) ==
    IF ct = "ONAN" /\ has_switch
    THEN "ONAF switch only works when the cooling type is ONAF."
    ELSE ""

\* Variant: a profile of any length is taken.
model_init_error_unchecked(m, fs, n) == ""

\* Model.__init__: the schedule must be as long as the temperature profile.
model_init_error(m, fs, n) ==
    IF m = "fans" /\ Len(fs) # n
    THEN "The length of the fan_on list in the cooling_switch_settings must be equal to the length of the temperature profile."
    ELSE ""

\* Variant: a transformer without a hot-spot factor is taken.
model_hot_spot_error_unchecked(specs) == ""

\* Model.__init__: the transformer must have a hot-spot factor.
model_hot_spot_error(specs) ==
    IF "hot_spot_fac" \notin DOMAIN specs THEN "AttributeError" ELSE ""

\* Model.__init__: the message of the first check that fails, "" if none.
model_error(specs, m, fs, n) ==
    IF model_hot_spot_error(specs) # ""
    THEN model_hot_spot_error(specs)
    ELSE model_init_error(m, fs, n)

BldInit ==
    /\ switch_args = NoArgs
    /\ cooling_type = ""
    /\ profile_len = 0
    /\ bld_pc = "start"
    /\ build_message = ""

\* ONAFSwitch(fans_status=..., temperature_threshold=FanSwitchConfig(...))
BuildSwitch ==
    /\ bld_pc = "start"
    /\ \E a \in SwitchArgs :
          /\ switch_args' = a
          /\ build_message' = switch_error(a)
          /\ IF switch_error(a) # ""
             THEN /\ bld_pc' = "switch_rejected"
                  /\ UNCHANGED <<mode, fans_status, activation_temp, deactivation_temp>>
             ELSE /\ bld_pc' = "switch_built"
                  /\ mode' = IF a.has_fans THEN "fans" ELSE "threshold"
                  /\ fans_status' = a.fans
                  /\ activation_temp' = a.act
                  /\ deactivation_temp' = a.deact
    /\ UNCHANGED <<cooling_type, profile_len, original_onaf_specs, ctl_specs, tr_specs,
                   sw_pc, index, top_oil_temp, previous_top_oil_temp, new_specs,
                   initial_top_oil_temperature>>

\* Transformer.__init__(cooling_type, ONAF_switch): with the settings built
\* before, or with no switch.
BuildTransformer ==
    /\ bld_pc \in {"start", "switch_built"}
    /\ \E ct \in {"ONAN", "ONAF"} :
          /\ build_message' = transformer_init_error(ct, mode # "none")
          /\ cooling_type' = ct
          /\ bld_pc' = IF transformer_init_error(ct, mode # "none") # ""
                       THEN "transformer_rejected"
                       ELSE "transformer_built"
    /\ UNCHANGED <<switch_args, profile_len, swvars>>

\* Model(temperature_profile, transformer) with a profile of n points.
BuildModel ==
    /\ bld_pc = "transformer_built"
    /\ \E n \in 1..MaxLen :
          /\ build_message' = model_error(tr_specs, mode, fans_status, n)
          /\ profile_len' = n
          /\ bld_pc' = IF model_error(tr_specs, mode, fans_status, n) # ""
                       THEN "model_rejected"
                       ELSE "model_built"
    /\ UNCHANGED <<switch_args, cooling_type, swvars>>

\* transformer.specs.hot_spot_fac = None on the constructed transformer: the
\* specifications have no hot-spot factor any more.
without_hot_spot_fac(specs) == [k \in DOMAIN specs \ {"hot_spot_fac"} |-> specs[k]]

UnsetHotSpotFactor ==
    /\ bld_pc = "transformer_built"
    /\ "hot_spot_fac" \in DOMAIN tr_specs
    /\ tr_specs' = without_hot_spot_fac(tr_specs)
    /\ UNCHANGED <<mode, fans_status, activation_temp, deactivation_temp,
                   original_onaf_specs, ctl_specs, sw_pc, index, top_oil_temp,
                   previous_top_oil_temp, new_specs, initial_top_oil_temperature>>
    /\ UNCHANGED bldvars

\* Model.run of the simulation that was constructed.
BuildStartRun == bld_pc = "model_built" /\ StartRun /\ UNCHANGED bldvars
BuildCheckSwitch == bld_pc = "model_built" /\ CheckSwitch /\ UNCHANGED bldvars

\* The construction is over: the switch settings passed their checks, the
\* transformer is ONAF if it carries them, the profile fits the schedule.
BldIdle ==
    /\ switch_args = [has_fans |-> mode = "fans", fans |-> fans_status,
                      has_threshold |-> mode = "threshold",
                      act |-> activation_temp, deact |-> deactivation_temp]
    /\ cooling_type = "ONAF"
    /\ profile_len = IF mode = "fans" THEN Len(fans_status) ELSE MaxLen
    /\ bld_pc = "model_built"
    /\ build_message = ""

\* --------------------------------- losses of a three-winding transformer
\* The floats of the source are exact rationals here: [num, den], den > 0,
\* in lowest terms.
RECURSIVE GCD(_, _)
GCD(a, b) == IF b = 0 THEN a ELSE GCD(b, a % b)
Abs(n) == IF n < 0 THEN -n ELSE n
Rat(n, d) == [num |-> n \div GCD(Abs(n), d), den |-> d \div GCD(Abs(n), d)]
RInt(n) == Rat(n, 1)
RAdd(a, b) == Rat(a.num * b.den + b.num * a.den, a.den * b.den)
RSub(a, b) == Rat(a.num * b.den - b.num * a.den, a.den * b.den)
RMul(a, b) == Rat(a.num * b.num, a.den * b.den)
RDiv(a, b) == IF b.num > 0 THEN Rat(a.num * b.den, a.den * b.num)
              ELSE Rat(-(a.num * b.den), a.den * (-b.num))
REq(a, b) == a.num * b.den = b.num * a.den
RECURSIVE RPow(_, _)
RPow(a, n) == IF n = 0 THEN RInt(1) ELSE RMul(a, RPow(a, n - 1))

\* The three-winding specifications of the runs: rated currents, pairwise
\* load losses, the total load loss (the sum of the pairwise losses that
\* create derives, or a total the user gave), whole oil exponents.
RatedLoads == 1..MaxRated
PairLosses == {RInt(2), RInt(4)}
TotalChoices == {"summed", "given"}

ThreeWindingSpecs(h, m, l, hl, hm, ml, nll, total, x) ==
    [hv_winding |-> [nom_load |-> RInt(h)],
     mv_winding |-> [nom_load |-> RInt(m)],
     lv_winding |-> [nom_load |-> RInt(l)],
     load_loss_hv_lv |-> hl, load_loss_hv_mv |-> hm, load_loss_mv_lv |-> ml,
     load_loss_total |-> total, no_load_loss |-> RInt(nll),
     top_oil_temp_rise |-> RInt(60), oil_exp_x |-> x]

_c1(specs) == RDiv(specs.hv_winding.nom_load, specs.mv_winding.nom_load)
_c2(specs) == RDiv(specs.mv_winding.nom_load, specs.lv_winding.nom_load)

\* Variant: the two losses divided by c2 have their signs exchanged.
_get_loss_hc_signs(specs) ==
    RMul(RDiv(Rat(1, 2), _c1(specs)),
         RSub(RAdd(specs.load_loss_hv_mv,
                   RMul(RDiv(RInt(1), _c2(specs)), specs.load_loss_mv_lv)),
              RMul(RDiv(RInt(1), _c2(specs)), specs.load_loss_hv_lv)))

_get_loss_hc(specs) ==
    RMul(RDiv(Rat(1, 2), _c1(specs)),
         RAdd(RSub(specs.load_loss_hv_mv,
                   RMul(RDiv(RInt(1), _c2(specs)), specs.load_loss_mv_lv)),
              RMul(RDiv(RInt(1), _c2(specs)), specs.load_loss_hv_lv)))

_get_loss_mc(specs) ==
    RMul(RDiv(Rat(1, 2), _c2(specs)),
         RAdd(RSub(RMul(_c2(specs), specs.load_loss_hv_mv), specs.load_loss_hv_lv),
              specs.load_loss_mv_lv))

_get_loss_lc(specs) ==
    RMul(Rat(1, 2),
         RAdd(RSub(specs.load_loss_hv_lv, RMul(_c2(specs), specs.load_loss_hv_mv)),
              specs.load_loss_mv_lv))

_pre_factor(specs) == specs.top_oil_temp_rise

\* ThreeWindingTransformer._end_temperature_top_oil(load_profile)
_end_temperature_top_oil(specs, loads) ==
    LET hv_rise == RMul(_get_loss_hc(specs),
                        RPow(RDiv(RInt(loads[1]), specs.hv_winding.nom_load), 2))
        mv_rise == RMul(_get_loss_mc(specs),
                        RPow(RDiv(RInt(loads[2]), specs.mv_winding.nom_load), 2))
        lv_rise == RMul(_get_loss_lc(specs),
                        RPow(RDiv(RInt(loads[3]), specs.lv_winding.nom_load), 2))
    IN  RDiv(RMul(_pre_factor(specs),
                  RAdd(RAdd(RAdd(hv_rise, mv_rise), lv_rise), specs.no_load_loss)),
             specs.load_loss_total)

\* The single-winding transformer that corresponds to a three-winding one:
\* its load loss is the sum of the three winding losses, its rated current
\* the one of the LV winding.
corresponding_power_specs(specs) ==
    [load_loss |-> RAdd(RAdd(_get_loss_hc(specs), _get_loss_mc(specs)), _get_loss_lc(specs)),
     nom_load_sec_side |-> specs.lv_winding.nom_load,
     no_load_loss |-> specs.no_load_loss,
     top_oil_temp_rise |-> specs.top_oil_temp_rise, oil_exp_x |-> specs.oil_exp_x]

\* The end top-oil temperature of a single-winding transformer:
\* top_oil_temp_rise x ((no_load_loss + load_loss x (load / rated)^2)
\*                      / (no_load_loss + load_loss)) ^ oil_exp_x
power_end_temperature_top_oil(specs, load) ==
    RMul(specs.top_oil_temp_rise,
         RPow(RDiv(RAdd(specs.no_load_loss,
                        RMul(specs.load_loss, RPow(RDiv(RInt(load), specs.nom_load_sec_side), 2))),
                   RAdd(specs.no_load_loss, specs.load_loss)),
              specs.oil_exp_x))

LossInit ==
    /\ \E h \in RatedLoads, m \in RatedLoads, l \in RatedLoads,
          hl \in PairLosses, hm \in PairLosses, ml \in PairLosses,
          nll \in {0, 2}, choice \in TotalChoices, x \in {1, 2} :
          LET summed == RAdd(RAdd(hl, hm), ml)
              sp == ThreeWindingSpecs(h, m, l, hl, hm, ml, nll, summed, x)
              given == RAdd(RInt(nll),
                            RAdd(RAdd(_get_loss_hc(sp), _get_loss_mc(sp)), _get_loss_lc(sp)))
          IN  tw_specs = IF choice = "summed" \/ given.num <= 0 THEN sp
                         ELSE [sp EXCEPT !.load_loss_total = given]
    /\ loss_hc = Unbound
    /\ loss_mc = Unbound
    /\ loss_lc = Unbound
    /\ load_triple = <<0, 0, 0>>
    /\ end_temp = Unbound
    /\ power_end_temp = Unbound
    /\ loss_pc = "constructed"

\* The three winding losses are recovered from the pairwise losses.
GetLosses ==
    /\ loss_pc = "constructed"
    /\ loss_hc' = _get_loss_hc(tw_specs)
    /\ loss_mc' = _get_loss_mc(tw_specs)
    /\ loss_lc' = _get_loss_lc(tw_specs)
    /\ loss_pc' = "decomposed"
    /\ UNCHANGED <<tw_specs, load_triple, end_temp, power_end_temp>>

\* The end top-oil temperature for the loads of one instant.
EndTemperature ==
    /\ loss_pc = "decomposed"
    /\ \E hv \in 0..MaxLoad, mv \in 0..MaxLoad, lv \in 0..MaxLoad :
          /\ load_triple' = <<hv, mv, lv>>
          /\ end_temp' = _end_temperature_top_oil(tw_specs, <<hv, mv, lv>>)
          /\ power_end_temp' =
                 power_end_temperature_top_oil(corresponding_power_specs(tw_specs), lv)
    /\ loss_pc' = "evaluated"
    /\ UNCHANGED <<tw_specs, loss_hc, loss_mc, loss_lc>>

\* No losses are computed.
LossIdle ==
    /\ tw_specs = ThreeWindingSpecs(1, 1, 1, RInt(2), RInt(2), RInt(2), 2, RInt(6), 1)
    /\ loss_hc = Unbound
    /\ loss_mc = Unbound
    /\ loss_lc = Unbound
    /\ load_triple = <<0, 0, 0>>
    /\ end_temp = Unbound
    /\ power_end_temp = Unbound
    /\ loss_pc = "constructed"

\* ------------------------------------ parameter sets handed out by reference
\* The controller returns self.original_onaf_specs itself for the ONAF state
\* and a new object for the ONAN state.  The ONAN set always differs from the
\* stored set (top_oil_temp_rise), so a returned set that equals the stored
\* one is the stored object.
AliasIdle == active_is_original = FALSE

\* determine_initial_specifications: the set handed out at the start.
AliasStart ==
    /\ mode # "none"
    /\ StartRun
    /\ active_is_original' = (ctl_specs' = original_onaf_specs)

\* check_switch_and_get_new_specs: the set handed out by a switch, if any.
AliasCheck ==
    /\ mode # "none"
    /\ CheckSwitch
    /\ active_is_original' = IF new_specs' = None THEN active_is_original
                             ELSE new_specs' = original_onaf_specs

\* An assignment to a field of the active set (as _set_HS_fac and the
\* surcharge reset of the calibration do on the transformer's specs): the
\* stored set changes with it when it is the same object.
AliasedFields == {"hot_spot_fac", "amb_temp_surcharge"}
assigned_value(field) == IF field = "hot_spot_fac" THEN 250 ELSE 0

AliasMutate ==
    /\ sw_pc = "running"
    /\ \E field \in AliasedFields :
          /\ ctl_specs[field] # assigned_value(field)
          /\ ctl_specs' = [ctl_specs EXCEPT ![field] = assigned_value(field)]
          /\ original_onaf_specs' =
                 IF active_is_original
                 THEN [original_onaf_specs EXCEPT ![field] = assigned_value(field)]
                 ELSE original_onaf_specs
    /\ UNCHANGED <<mode, fans_status, activation_temp, deactivation_temp, tr_specs,
                   sw_pc, index, top_oil_temp, previous_top_oil_temp, new_specs,
                   initial_top_oil_temperature, active_is_original>>

\* ------------------------------------------------------- specifications
\* The cooling-switch run; no calibration is in progress.
CalIdle ==
    /\ kind = "power"
    /\ hot_spot_factor_min = FacLow
    /\ hot_spot_factor_max = FacLow
    /\ heap = [i \in 1..2 |-> IF i = 1 THEN UncalibratedSpecs(0) ELSE None]
    /\ calibrated_transformer = 0
    /\ difference = 0
    /\ new_hot_spot_factor = Unbound
    /\ old_hot_spot_factor = Unbound
    /\ simulated = <<>>
    /\ cal_pc = "idle"
    /\ cal_error = ""

Init == SwInit /\ CalIdle /\ CrIdle /\ EngIdle /\ BldIdle /\ LossIdle /\ AliasIdle

Next ==
    \/ StartRun /\ UNCHANGED notsw
    \/ CheckSwitch /\ UNCHANGED notsw

Spec == Init /\ [][Next]_vars

\* The calibration; no cooling switch is configured.
SwIdle ==
    /\ mode = "none"
    /\ fans_status = <<>>
    /\ activation_temp = 0
    /\ deactivation_temp = 0
    /\ original_onaf_specs = user_specs
    /\ ctl_specs = user_specs
    /\ tr_specs = user_specs
    /\ sw_pc = "constructed"
    /\ index = 0
    /\ top_oil_temp = 0
    /\ previous_top_oil_temp = 0
    /\ initial_top_oil_temperature = 0
    /\ new_specs = None

CalibInit == CalInit /\ SwIdle /\ CrIdle /\ EngIdle /\ BldIdle /\ LossIdle /\ AliasIdle

CalibNext ==
    \/ CalCall /\ UNCHANGED notcal
    \/ CalIterate /\ UNCHANGED notcal
    \/ CalReturn /\ UNCHANGED notcal

CalibSpec == CalibInit /\ [][CalibNext]_vars

\* The calibration as a sequential function call: the interpreter keeps
\* executing it, so a step that can be taken is taken.
CalibFairSpec == CalibSpec /\ WF_vars(CalibNext)

\* The construction of transformers; no switch run, no calibration.
CreateInit == CrInit /\ SwIdle /\ CalIdle /\ EngIdle /\ BldIdle /\ LossIdle /\ AliasIdle

CreateNext ==
    \/ Construct /\ UNCHANGED notcr
    \/ Mutate /\ UNCHANGED notcr

CreateSpec == CreateInit /\ [][CreateNext]_vars

\* The simulation run of a transformer without a cooling switch.
EngineInit == EngInit /\ SwIdle /\ CalIdle /\ CrIdle /\ BldIdle /\ LossIdle /\ AliasIdle

EngineNext ==
    \/ RunStart /\ UNCHANGED noteng
    \/ RunStep /\ UNCHANGED noteng

EngineSpec == EngineInit /\ [][EngineNext]_vars

\* From the construction of the switch settings to the end of the run.
BuildInit == BldInit /\ SwIdle /\ CalIdle /\ CrIdle /\ EngIdle /\ LossIdle /\ AliasIdle

BuildNext ==
    \/ BuildSwitch /\ UNCHANGED notbld
    \/ BuildTransformer /\ UNCHANGED notbld
    \/ BuildModel /\ UNCHANGED notbld
    \/ BuildStartRun /\ UNCHANGED notbld
    \/ BuildCheckSwitch /\ UNCHANGED notbld

BuildSpec == BuildInit /\ [][BuildNext]_vars

\* The losses and end temperature of a three-winding transformer.
LossSpecInit == LossInit /\ SwIdle /\ CalIdle /\ CrIdle /\ EngIdle /\ BldIdle /\ AliasIdle

LossNext ==
    \/ GetLosses /\ UNCHANGED notloss
    \/ EndTemperature /\ UNCHANGED notloss

LossSpec == LossSpecInit /\ [][LossNext]_vars

\* The same with a hot-spot factor that is set to None on the transformer
\* before the simulation is constructed.
UnsetNext ==
    \/ BuildNext
    \/ UnsetHotSpotFactor /\ UNCHANGED notbld

UnsetSpec == BuildInit /\ [][UnsetNext]_vars

\* The controller's run with assignments to the active parameter set.
AliasInit == SwInit /\ CalIdle /\ CrIdle /\ EngIdle /\ BldIdle /\ LossIdle /\ AliasIdle

AliasNext ==
    \/ AliasStart /\ UNCHANGED notalias
    \/ AliasCheck /\ UNCHANGED notalias
    \/ AliasMutate /\ UNCHANGED notalias

AliasSpec == AliasInit /\ [][AliasNext]_vars

\* The calibration driven by the thermal engine: the hot-spot rise of a side
\* is hot_spot_fac times a non-negative gradient term, so the peak of a
\* side does not grow when the factor is lowered.
PeaksMonotone(sim) ==
    \A i \in 1..Len(sim) : \A j \in 1..Len(sim) :
        sim[i].fac <= sim[j].fac =>
            \A sd \in DOMAIN sim[i].peaks : sim[i].peaks[sd] <= sim[j].peaks[sd]

CalIterateEngine == CalIterate /\ PeaksMonotone(simulated')

CalibEngineNext ==
    \/ CalCall /\ UNCHANGED notcal
    \/ CalIterateEngine /\ UNCHANGED notcal
    \/ CalReturn /\ UNCHANGED notcal

CalibEngineSpec == CalibInit /\ [][CalibEngineNext]_vars

\* ------------------------------------------------- cooling-switch claims
IsNone(r) == "is_none" \in DOMAIN r
Rising(prev, cur) == prev < activation_temp /\ activation_temp <= cur
Falling(prev, cur) == prev > deactivation_temp /\ deactivation_temp >= cur

ScheduleEntry == IF index + 1 <= Len(fans_status) THEN index + 1 ELSE Len(fans_status)

\* C2: in schedule mode the active parameter set tracks the schedule: it
\* starts FORCED iff schedule[0]; after the check at step i <= N-2 it is
\* FORCED iff schedule[i+1] and it changed iff schedule[i] # schedule[i+1];
\* the check at the last index N-1 changes nothing; temperatures play no part.
C2_ScheduleTracking ==
    /\ [](mode = "fans" /\ sw_pc = "running" =>
            /\ ctl_specs = (IF fans_status[ScheduleEntry] THEN ONAF ELSE ONAN)
            /\ tr_specs = (IF fans_status[ScheduleEntry] THEN ONAF ELSE ONAN))
    /\ [][(mode = "fans" /\ index' = index + 1) =>
            IF index < Len(fans_status) - 1
            THEN /\ (ctl_specs' # ctl_specs) <=> (fans_status[index + 1] # fans_status[index + 2])
                 /\ (tr_specs' # tr_specs) <=> (fans_status[index + 1] # fans_status[index + 2])
                 /\ ~IsNone(new_specs') <=> (fans_status[index + 1] # fans_status[index + 2])
            ELSE /\ ctl_specs' = ctl_specs
                 /\ tr_specs' = tr_specs
                 /\ IsNone(new_specs')]_vars

\* A schedule off, on, off has been followed to its end: the run is in ONAN
\* after two switches, the last check having changed nothing.
C2_Witness ==
    /\ mode = "fans" /\ sw_pc = "running"
    /\ fans_status = <<FALSE, TRUE, FALSE>>
    /\ index = 3
    /\ ctl_specs = ONAN /\ tr_specs = ONAN
    /\ top_oil_temp = MaxTemp

\* C3: in threshold mode the transformer's starting parameter set is NATURAL
\* when the initial top-oil temperature is strictly below the activation
\* threshold and FORCED when it is at or above it.
C3_StartingSet ==
    (mode = "threshold" /\ sw_pc = "running" /\ index = 0) =>
        tr_specs = (IF initial_top_oil_temperature < activation_temp THEN ONAN ELSE ONAF)

ReturnedFactor == heap[calibrated_transformer].hot_spot_fac

\* The candidates max - k*0.01 that lie in [min, max].
Candidates ==
    {c \in hot_spot_factor_min..hot_spot_factor_max :
        \E k \in 0..MaxFacSpan : c = hot_spot_factor_max - k * Step}

Tested(c) == \E i \in 1..Len(simulated) : simulated[i].fac = c
PeakAt(c) == SeqMax(simulated[CHOOSE i \in 1..Len(simulated) : simulated[i].fac = c].peaks)
Admissible(c) == Tested(c) /\ PeakAt(c) <= hot_spot_limit
Exceeds(c) == Tested(c) /\ PeakAt(c) > hot_spot_limit

\* The search ended on a simulation whose peak did not exceed the limit.
StoppedOnSuccess ==
    /\ cal_pc = "returned"
    /\ Len(simulated) >= 1
    /\ SeqMax(simulated[Len(simulated)].peaks) <= hot_spot_limit

\* C5: whenever calibrate_hotspot_factor returns (min <= max), the hot-spot
\* factor stored on the returned transformer lies in [min, max], whatever
\* the simulated peaks were.
C5_FactorWithinBounds ==
    cal_pc = "returned" =>
        /\ hot_spot_factor_min <= ReturnedFactor
        /\ ReturnedFactor <= hot_spot_factor_max

\* The search ran below min and the result was clipped up to min.
C5_Witness ==
    /\ cal_pc = "returned"
    /\ old_hot_spot_factor < hot_spot_factor_min
    /\ ReturnedFactor = hot_spot_factor_min
    /\ hot_spot_factor_min < hot_spot_factor_max

\* C6: if some candidate max - k*0.01 in [min, max] has a peak that does not
\* exceed the limit, the returned factor is the largest such candidate: it
\* is admissible itself and every larger candidate was simulated and
\* exceeded the limit (max is returned when max is admissible); when no
\* candidate is admissible, all of them were simulated and exceeded.
C6_LargestAdmissible ==
    cal_pc = "returned" =>
        /\ \A c \in Candidates : c > ReturnedFactor => Exceeds(c)
        /\ (\E c \in Candidates : Admissible(c)) =>
              (ReturnedFactor \in Candidates /\ Admissible(ReturnedFactor))
        /\ ~(\E c \in Candidates : Admissible(c)) =>
              (\A c \in Candidates : Exceeds(c))
        /\ Admissible(hot_spot_factor_max) => ReturnedFactor = hot_spot_factor_max

\* max was rejected and a lower candidate above min was returned as the
\* first admissible one.
C6_Witness ==
    /\ cal_pc = "returned"
    /\ Exceeds(hot_spot_factor_max)
    /\ ReturnedFactor < hot_spot_factor_max
    /\ ReturnedFactor > hot_spot_factor_min
    /\ Admissible(ReturnedFactor)

\* C7 as stated: when the search stops because a candidate's peak no longer
\* exceeds the limit, the returned factor is the candidate one step above
\* that candidate (the last one that exceeded), clipped into [min, max].
C7_Original ==
    StoppedOnSuccess =>
        ReturnedFactor = clip(simulated[Len(simulated)].fac + Step,
                              hot_spot_factor_min, hot_spot_factor_max)

\* C7 as amended: when the search stops because a candidate's peak no longer
\* exceeds the limit, the returned factor is that candidate itself (the last
\* one tested, the first that did not exceed), clipped into [min, max]; all
\* candidates tested before it exceeded the limit.
C7_ReturnsFirstSuccess ==
    StoppedOnSuccess =>
        /\ ReturnedFactor = clip(simulated[Len(simulated)].fac,
                                 hot_spot_factor_min, hot_spot_factor_max)
        /\ \A i \in 1..(Len(simulated) - 1) :
              SeqMax(simulated[i].peaks) > hot_spot_limit

\* The search stopped on its second candidate, which is returned unclipped
\* although the candidate above it exceeded the limit.
C7_Witness ==
    /\ StoppedOnSuccess
    /\ Len(simulated) = 2
    /\ SeqMax(simulated[1].peaks) > hot_spot_limit
    /\ ReturnedFactor = simulated[2].fac
    /\ ReturnedFactor >= hot_spot_factor_min

C9_BoundsError ==
    /\ (cal_pc # "idle" /\ hot_spot_factor_min > hot_spot_factor_max) =>
          /\ cal_pc = "raised" /\ cal_error = "bounds"
          /\ calibrated_transformer = 0
          /\ heap[2] = None
          /\ simulated = <<>>
    /\ cal_error = "bounds" => hot_spot_factor_min > hot_spot_factor_max
    /\ (cal_pc # "idle" /\ hot_spot_factor_min = hot_spot_factor_max
          /\ kind \in {"power", "threewinding"}) => cal_pc # "raised"

\* A three-winding call with min above max was rejected.
C9_Witness ==
    /\ cal_pc = "raised" /\ cal_error = "bounds"
    /\ kind = "threewinding"
    /\ hot_spot_factor_min > hot_spot_factor_max

\* C10: the transformer passed in is never changed; the returned transformer
\* is a distinct copy that carries the input's ambient surcharge (the search
\* having run with surcharge 0) and differs from the input in nothing but
\* its hot-spot factor.
C10_InputUntouched ==
    /\ [][heap'[uncalibrated_transformer] = heap[uncalibrated_transformer]]_vars
    /\ [](\A i \in 1..Len(simulated) : simulated[i].surcharge = 0)
    /\ [](cal_pc = "returned" =>
            /\ calibrated_transformer # uncalibrated_transformer
            /\ \A f \in DOMAIN heap[uncalibrated_transformer] :
                  f # "hot_spot_fac" =>
                     heap[calibrated_transformer][f] = heap[uncalibrated_transformer][f])

\* A transformer with a surcharge of 20 was calibrated: the copy carries the
\* surcharge and another hot-spot factor, the search ran with surcharge 0.
C10_Witness ==
    /\ cal_pc = "returned"
    /\ heap[uncalibrated_transformer].amb_temp_surcharge = 20
    /\ heap[calibrated_transformer].amb_temp_surcharge = 20
    /\ heap[calibrated_transformer].hot_spot_fac # heap[uncalibrated_transformer].hot_spot_fac
    /\ simulated # <<>>
    /\ simulated[1].surcharge = 0

\* The downward search run for one side alone on the peaks of that side: the
\* loop of calibrate_hotspot_factor with the side's peak in place of the
\* maximum over the sides.  A side whose search would need a candidate that
\* was never simulated has no known result (0, below every factor).
RECURSIVE SideSearch(_, _, _, _, _)
SideSearch(sd, i, diff, new, old) ==
    IF search_continues(diff, new, hot_spot_factor_min)
    THEN IF i <= Len(simulated)
         THEN SideSearch(sd, i + 1, simulated[i].peaks[sd] - hot_spot_limit,
                         new - Step, new)
         ELSE 0
    ELSE calibrated_hot_spot_factor(old, hot_spot_factor_min, hot_spot_factor_max)

SideFactor(sd) == SideSearch(sd, 1, 100, hot_spot_factor_max, hot_spot_factor_max)

C12_DefaultsUntouched ==
    /\ [](/\ objects[_onan_defaults] = onan_defaults_value
          /\ objects[_onaf_defaults] = onaf_defaults_value)
    /\ [][\A t \in 1..Len(transformers) :
             last_op' # <<"mutate", t>> =>
                 /\ transformers'[t] = transformers[t]
                 /\ objects'[transformers[t].specs] = objects[transformers[t].specs]]_vars

\* Two transformers of the same cooling type were constructed with
\* overrides and one of them was then changed in place.
C12_Witness ==
    /\ Len(transformers) = 2
    /\ transformers[1].cooling_type = transformers[2].cooling_type
    /\ last_op = <<"mutate", 2>>
    /\ objects[transformers[1].specs].time_const_oil = 180
    /\ objects[transformers[2].specs].time_const_oil = 99

\* ------------------------------------------------- claims on the engine
Indices == 1..Len(top_oil_temp_profile)
ZeroLoadZeroLoss ==
    /\ run_specs.no_load_loss = 0
    /\ \A t \in 1..Len(load_profile) : load_profile[t] = 0
EqualsAmbientAt(t) ==
    /\ top_oil_temp_profile[t] = ambient_temperature_profile[t]
    /\ hot_spot_temp_profile[t] = ambient_temperature_profile[t]

AmbientSettled(t) ==
    \A i \in 2..t :
        \/ ambient_temperature_profile[i] = ambient_temperature_profile[i - 1]
        \/ elapsed[i] = "long"

C14_ZeroStepIdentity ==
    \A t \in Indices :
        elapsed[t] = "zero" =>
            /\ top_oil_temp_profile[t] = top_oil_temp_profile[t - 1]
            /\ hot_spot_temp_profile[t] = hot_spot_temp_profile[t - 1]

\* A zero-length step at which load and ambient temperature both changed
\* while the transformer was away from its steady state.
C14_Witness ==
    \E t \in Indices :
        /\ elapsed[t] = "zero"
        /\ load_profile[t] # load_profile[t - 1]
        /\ ambient_temperature_profile[t] # ambient_temperature_profile[t - 1]
        /\ top_oil_temp_profile[t] # internal_ambient(run_specs, ambient_temperature_profile[t])
               + end_temperature_top_oil(run_specs, load_profile[t])
        /\ top_oil_temp_profile[t] = top_oil_temp_profile[t - 1]

\* --------------------------------------------- claims on the construction
\* of the switch settings, the transformer and the simulation
SwitchAttempted == bld_pc = "switch_rejected" \/ mode # "none"
SwitchAccepted == mode # "none"
TransformerAttempted ==
    bld_pc \in {"transformer_built", "transformer_rejected", "model_built", "model_rejected"}
TransformerBuilt == bld_pc \in {"transformer_built", "model_built", "model_rejected"}
ModelAttempted == bld_pc \in {"model_built", "model_rejected"}
ThresholdMessage == "Activation temperature must be higher than deactivation temperature."
OnanMessage == "ONAF switch only works when the cooling type is ONAF."
LengthMessage ==
    "The length of the fan_on list in the cooling_switch_settings must be equal to the length of the temperature profile."

\* C16: a fan schedule of any length is accepted by the switch settings and
\* by the transformer; a simulation constructed with a profile of another
\* number of points is rejected with the length-mismatch error, and no step
\* of a run is ever taken without an accepted simulation.
C16_LengthCheckedAtModel ==
    /\ (SwitchAttempted /\ switch_args.has_fans /\ ~switch_args.has_threshold) =>
           /\ SwitchAccepted /\ fans_status = switch_args.fans
           /\ (TransformerAttempted /\ cooling_type = "ONAF") => TransformerBuilt
    /\ (ModelAttempted /\ mode = "fans") =>
           IF Len(fans_status) # profile_len
           THEN /\ bld_pc = "model_rejected"
                /\ build_message = LengthMessage
                /\ sw_pc = "constructed" /\ index = 0
           ELSE bld_pc = "model_built"
    /\ sw_pc = "running" => bld_pc = "model_built"

\* A schedule of one entry passed the settings and the ONAF transformer and
\* was rejected by a simulation with a longer profile.
C16_Witness ==
    /\ bld_pc = "model_rejected"
    /\ mode = "fans" /\ Len(fans_status) = 1
    /\ profile_len = MaxLen
    /\ cooling_type = "ONAF"
    /\ build_message = LengthMessage

\* C17: switch settings are accepted only with exactly one of the schedule
\* and the threshold pair: with both, and with neither, the construction
\* fails with the configuration error.
C17_ExactlyOne ==
    SwitchAttempted =>
        /\ (switch_args.has_fans /\ switch_args.has_threshold) =>
               /\ bld_pc = "switch_rejected"
               /\ switch_args.act > switch_args.deact =>
                      build_message =
                          "Provide either 'fans_status' or 'temperature_threshold', not both."
        /\ (~switch_args.has_fans /\ ~switch_args.has_threshold) =>
               /\ bld_pc = "switch_rejected"
               /\ build_message =
                      "Either 'fans_status' or 'temperature_threshold' must be provided."
        /\ SwitchAccepted => (switch_args.has_fans # switch_args.has_threshold)

\* Settings given neither a schedule nor a threshold pair were rejected.
C17_Witness ==
    /\ bld_pc = "switch_rejected"
    /\ ~switch_args.has_fans /\ ~switch_args.has_threshold
    /\ build_message = "Either 'fans_status' or 'temperature_threshold' must be provided."

\* C18: a threshold pair is accepted only with activation above
\* deactivation, an equal or lower activation is rejected with the
\* activation/deactivation message, and every pair a switch works with has
\* activation above deactivation.
C18_ActivationAboveDeactivation ==
    /\ (SwitchAttempted /\ switch_args.has_threshold) =>
           /\ switch_args.act <= switch_args.deact =>
                  /\ bld_pc = "switch_rejected"
                  /\ build_message = ThresholdMessage
           /\ (switch_args.act > switch_args.deact /\ ~switch_args.has_fans) =>
                  SwitchAccepted
    /\ mode = "threshold" => activation_temp > deactivation_temp

\* A pair of equal temperatures was rejected.
C18_Witness ==
    /\ bld_pc = "switch_rejected"
    /\ switch_args.has_threshold /\ ~switch_args.has_fans
    /\ switch_args.act = switch_args.deact
    /\ build_message = ThresholdMessage

C20_ActiveSetsValid ==
    \A t \in 1..Len(transformers) :
        LET specs == objects[transformers[t].specs]
        IN  /\ specs.time_const_oil > 0
            /\ specs.time_const_windings > 0
            /\ specs.lv_winding.nom_load > 0
            /\ specs.mv_winding.nom_load > 0
            /\ specs.hv_winding.nom_load > 0
            /\ specs.oil_exp_x >= 0
            /\ specs.winding_exp_y >= 0
            /\ specs.winding_oil_gradient >= 0
            /\ specs.lv_winding.winding_oil_gradient >= 0
            /\ specs.mv_winding.winding_oil_gradient >= 0
            /\ specs.hv_winding.winding_oil_gradient >= 0

\* The default set registered for the class and the cooling type.
RegisteredDefaults(ct) ==
    IF ct = "ONAN" THEN onan_defaults_value ELSE onaf_defaults_value
JustConstructed(t) == last_op = <<"construct", t>>

\* C21: in the set a transformer is created with, every field the user gave
\* has the user's value and every field the user left out has the value of
\* the defaults registered for the class and the cooling type.
C21_MergeOfDefaultsAndUser ==
    \A t \in 1..Len(transformers) :
        JustConstructed(t) =>
            LET specs == objects[transformers[t].specs]
                user == transformers[t].user_specs
                dflt == RegisteredDefaults(transformers[t].cooling_type)
            IN  /\ \A k \in DOMAIN user : specs[k] = user[k]
                /\ \A k \in DOMAIN dflt \ DOMAIN user : specs[k] = dflt[k]

\* An ONAN transformer was created from user specifications that give the
\* oil time constant and leave the winding time constant out.
C21_Witness ==
    \E t \in 1..Len(transformers) :
        /\ JustConstructed(t)
        /\ transformers[t].cooling_type = "ONAN"
        /\ "time_const_oil" \in DOMAIN transformers[t].user_specs
        /\ "time_const_windings" \notin DOMAIN transformers[t].user_specs
        /\ objects[transformers[t].specs].time_const_oil = 180
        /\ objects[transformers[t].specs].time_const_windings = 10

C23_LossIdentities ==
    loss_pc # "constructed" =>
        /\ REq(RAdd(RMul(_c1(tw_specs), loss_hc), loss_mc), tw_specs.load_loss_hv_mv)
        /\ REq(RAdd(RMul(_c2(tw_specs), loss_mc), loss_lc), tw_specs.load_loss_mv_lv)
        /\ REq(RAdd(RMul(RMul(_c1(tw_specs), _c2(tw_specs)), loss_hc), loss_lc),
               tw_specs.load_loss_hv_lv)

\* The losses of a transformer with three different rated current ratios
\* and different pairwise losses were recovered.
C23_Witness ==
    /\ loss_pc = "decomposed"
    /\ ~REq(_c1(tw_specs), RInt(1))
    /\ ~REq(_c2(tw_specs), RInt(1))
    /\ ~REq(_c1(tw_specs), _c2(tw_specs))
    /\ tw_specs.load_loss_hv_mv # tw_specs.load_loss_mv_lv
    /\ tw_specs.load_loss_hv_lv # tw_specs.load_loss_mv_lv

\* The ratio of the losses at the loads of the instant to the total load
\* loss, each winding loss with the load and rated current of its winding.
LossRatio ==
    RDiv(RAdd(tw_specs.no_load_loss,
              RAdd(RAdd(RMul(loss_hc, RPow(RDiv(RInt(load_triple[1]),
                                                tw_specs.hv_winding.nom_load), 2)),
                        RMul(loss_mc, RPow(RDiv(RInt(load_triple[2]),
                                                tw_specs.mv_winding.nom_load), 2))),
                   RMul(loss_lc, RPow(RDiv(RInt(load_triple[3]),
                                           tw_specs.lv_winding.nom_load), 2)))),
         tw_specs.load_loss_total)

\* C24: the end top-oil temperature of a three-winding transformer is
\* top_oil_temp_rise times the loss ratio raised to the oil exponent.
C24_EndTemperatureWithExponent ==
    loss_pc = "evaluated" =>
        REq(end_temp, RMul(tw_specs.top_oil_temp_rise, RPow(LossRatio, tw_specs.oil_exp_x)))

\* The three windings have the same rated current and load, and the total
\* load loss gives the rated top-oil rise of the single-winding transformer.
IdenticalWindings ==
    /\ tw_specs.hv_winding.nom_load = tw_specs.lv_winding.nom_load
    /\ tw_specs.mv_winding.nom_load = tw_specs.lv_winding.nom_load
    /\ load_triple[1] = load_triple[3]
    /\ load_triple[2] = load_triple[3]
    /\ REq(tw_specs.load_loss_total,
           RAdd(tw_specs.no_load_loss, RAdd(RAdd(loss_hc, loss_mc), loss_lc)))

\* C25: a three-winding transformer with three identical windings and
\* loads, its losses giving the same rated top-oil rise, has the end
\* top-oil temperature of the corresponding single-winding transformer at
\* every load.
C25_EqualsSingleWinding ==
    (loss_pc = "evaluated" /\ IdenticalWindings) => REq(end_temp, power_end_temp)

\* C26: a transformer whose hot-spot factor is unset is rejected when the
\* simulation is constructed, and no step of a run is taken with
\* specifications that lack the hot-spot factor.
C26_UnsetHotSpotFactorRejected ==
    /\ (ModelAttempted /\ "hot_spot_fac" \notin DOMAIN tr_specs) =>
           /\ bld_pc = "model_rejected"
           /\ build_message = "AttributeError"
           /\ sw_pc = "constructed" /\ index = 0
    /\ sw_pc = "running" => "hot_spot_fac" \in DOMAIN tr_specs

\* The hot-spot factor of an ONAF transformer with a fitting fan schedule
\* was set to None and the construction of the simulation failed.
C26_Witness ==
    /\ bld_pc = "model_rejected"
    /\ "hot_spot_fac" \notin DOMAIN tr_specs
    /\ mode = "fans" /\ Len(fans_status) = profile_len
    /\ build_message = "AttributeError"

\* ------------------------------------- claims on the controller's sets
\* C27: whatever was decided before and whatever was assigned to a set the
\* controller handed out, a switch to the ONAF state yields a set equal to
\* the specifications the controller was constructed with.
C27_ReferenceSetIndependent ==
    [][(index' = index + 1 /\ new_specs' # None /\ active_is_original')
          => new_specs' = user_specs]_vars

\* A check that decides for the ONAN state: the schedule goes from on to off,
\* or the top-oil temperature falls through the deactivation threshold.
SwitchToNatural ==
    /\ index' = index + 1
    /\ \/ /\ mode = "fans" /\ index < Len(fans_status) - 1
          /\ fans_status[index + 1] /\ ~fans_status[index + 2]
       \/ /\ mode = "threshold" /\ Falling(top_oil_temp, top_oil_temp')

MaxSimulations == (hot_spot_factor_max - hot_spot_factor_min) \div Step + 2
CalibrationApplies == hot_spot_factor_min <= hot_spot_factor_max /\ kind # "other"

\* C29: for min <= max and whatever peaks the simulations yield, the search
\* returns; it has then run at least one and never more than
\* floor((max - min) / 0.01) + 2 simulations, each candidate 0.01 below the
\* one simulated before it.
C29_SearchTerminates ==
    /\ [](/\ hot_spot_factor_min <= hot_spot_factor_max =>
                Len(simulated) <= MaxSimulations
          /\ \A i \in 1..(Len(simulated) - 1) :
                simulated[i + 1].fac = simulated[i].fac - Step
          /\ cal_pc = "returned" => Len(simulated) >= 1)
    /\ (CalibrationApplies ~> cal_pc = "returned")

\* A search over a range that is not a whole number of steps ran the largest
\* number of simulations the bound allows, and returned.
C29_Witness ==
    /\ cal_pc = "returned"
    /\ (hot_spot_factor_max - hot_spot_factor_min) % Step # 0
    /\ hot_spot_factor_max - hot_spot_factor_min > Step
    /\ Len(simulated) = MaxSimulations

\* C30 as stated: every simulated candidate lies within [min, max].
C30_Original ==
    \A i \in 1..Len(simulated) :
        /\ hot_spot_factor_min <= simulated[i].fac
        /\ simulated[i].fac <= hot_spot_factor_max

\* C30: the first simulated candidate is max and every simulated candidate
\* lies within [min - 0.01, max]; the factor the search returns lies within
\* [min, max].
C30_CandidatesWithinOneStep ==
    /\ \A i \in 1..Len(simulated) :
          /\ hot_spot_factor_min - Step <= simulated[i].fac
          /\ simulated[i].fac <= hot_spot_factor_max
    /\ Len(simulated) >= 1 => simulated[1].fac = hot_spot_factor_max
    /\ cal_pc = "returned" =>
          /\ hot_spot_factor_min <= heap[calibrated_transformer].hot_spot_fac
          /\ heap[calibrated_transformer].hot_spot_fac <= hot_spot_factor_max

\* A search whose peaks stayed above the limit simulated a candidate below
\* min and returned min.
C30_Witness ==
    /\ cal_pc = "returned" /\ Len(simulated) >= 2
    /\ simulated[Len(simulated)].fac < hot_spot_factor_min
    /\ simulated[1].fac = hot_spot_factor_max
    /\ heap[calibrated_transformer].hot_spot_fac = hot_spot_factor_min

====
